---- MODULE Spec2Model ----
(***************************************************************************)
(* Model of the minions review scheduler: ReviewEngine (review_engine.py), *)
(* the review session run_review/_agent_loop (agent.py), the review store  *)
(* (db.py), the cancel_review server tool (server.py) and the shutdown     *)
(* sequence of the server command (cli.py).                                *)
(*                                                                         *)
(* One step of the model is the code that runs between two suspension      *)
(* points (an await) of one coroutine; a store call takes effect in the    *)
(* step that ends it.                                                      *)
(***************************************************************************)
EXTENDS Integers, Sequences, FiniteSets, TLC

\* ---------------------------------------------------------------- bounds
\* Reviews that are ever created, when reviews may run side by side.
MaxReviews == 2
\* _process_review tasks that are ever launched, when they may run side by side.
MaxTasks == 2
\* The same two bounds when max_concurrent_reviews = 1 (one session at a time).
SerialReviews == 3
SerialTasks == 3
\* Largest configured max_concurrent_reviews.
MaxCap == 2
\* Store or event-bus calls that raise during one run.
MaxFaults == 1
\* cancel_review calls that reach their status test during one run.
MaxCancels == 1

\* ------------------------------------------------------ program constants
\* agent.error = str(e)[:500]
ErrorMax == 500
\* len("Cancelled by user")
CancelledMsgLen == 17

VARIABLES
    reviews,                 \* the store's reviews table: rid -> row
    agents,                  \* the store's agents table: task id -> status
    tasks,                   \* the _process_review coroutines, by task id
    ntasks,                  \* tasks launched so far
    active_reviews,          \* ReviewEngine._active_reviews
    running,                 \* ReviewEngine._running
    engine,                  \* ReviewEngine.start(): position and locals
    stopper,                 \* ReviewEngine.stop() as called by _run_server
    cancels,                 \* cancel_review calls between their read and write
    ncancels,                \* cancel_review calls so far
    faults,                  \* store / event-bus calls that raised so far
    max_concurrent_reviews,  \* Config.max_concurrent_reviews
    nats,                    \* ReviewEngine.nats is configured
    session                  \* one run_review call in detail: position and locals

\* The bounds that apply under the configured capacity.
ReviewLimit == IF max_concurrent_reviews = 1 THEN SerialReviews ELSE MaxReviews
TaskLimit == IF max_concurrent_reviews = 1 THEN SerialTasks ELSE MaxTasks
ReviewSlots == 1..(IF SerialReviews >= MaxReviews THEN SerialReviews ELSE MaxReviews)
TaskSlots == 1..(IF SerialTasks >= MaxTasks THEN SerialTasks ELSE MaxTasks)

\* The scheduler's part of the state.
scheduler_vars == <<reviews, agents, tasks, ntasks, active_reviews, running,
                    engine, stopper, cancels, ncancels, faults,
                    max_concurrent_reviews, nats>>

vars == <<reviews, agents, tasks, ntasks, active_reviews, running, engine,
          stopper, cancels, ncancels, faults, max_concurrent_reviews, nats, session>>

\* ------------------------------------------------------------------ values
\* A nullable text column, by its length.
NoText == [isnull |-> TRUE, len |-> 0]
Text(n) == [isnull |-> FALSE, len |-> n]

Min(a, b) == IF a <= b THEN a ELSE b

\* str(e)[:500] of an exception whose message has n characters.
Truncate(n) == Text(Min(n, ErrorMax))

\* Lengths of the messages of the exceptions a session can raise: an exception
\* built with no message (str(e) = "") and one with a long message.
ExcMessageLens == {0, 600}

\* ReviewVerdict, with "none" for NULL; the verdict argument of a
\* submit_review tool call ("none": the argument is missing).
Verdicts == {"approve", "request_changes"}
VerdictArgs == Verdicts \cup {"none"}

\* The project registry (projects.yaml): project key -> git provider. A review
\* may name a key the registry does not hold ("ghost").
Registry == [web |-> "github", legacy |-> "bitbucket"]
ProjectKeys == {"web", "legacy", "ghost"}

\* _create_provider_for_project: the text of the ValueError it raises, NoText
\* when it returns a provider.  "Unsupported provider: bitbucket".
ProviderError(provider_type) ==
    IF provider_type \in {"gitlab", "github"} THEN NoText ELSE Text(31)

\* f"Project '{review.project}' not in projects.yaml"
ProjectMissingError == Text(35)

Rids == 1..Len(reviews)
Tids == 1..ntasks

IdleTask == [rid |-> 0, pc |-> "unborn", verdict |-> "none",
             agent_status |-> "starting", agent_error |-> NoText]

\* A task that has ended: its locals are gone.
Ended(t, how) == [tasks EXCEPT ![t] = [IdleTask EXCEPT !.rid = tasks[t].rid, !.pc = how]]

\* A task handle that never reports its task as done.
TaskNeverDone(t) == FALSE

\* asyncio.Task.done()
TaskDone(t) == tasks[t].pc \in {"finished", "raised", "cancelled"}

\* ------------------------------------------------------------------- store
\* An UPDATE with no WHERE clause: the named columns change in every row.
update_review_every_row(rid, fields) ==
    [r \in DOMAIN reviews |->
        [c \in DOMAIN reviews[r] |-> IF c \in DOMAIN fields THEN fields[c]
                                     ELSE reviews[r][c]]]

\* SQLiteDatabase.update_review: UPDATE reviews SET ... WHERE id = ?; only the
\* named columns of that row change.
update_review(rid, fields) ==
    [reviews EXCEPT ![rid] =
        [c \in DOMAIN @ |-> IF c \in DOMAIN fields THEN fields[c] ELSE @[c]]]

RECURSIVE OldestFirst(_)
OldestFirst(S) ==
    IF S = {} THEN <<>>
    ELSE LET m == CHOOSE x \in S : \A y \in S : reviews[x].created_at <= reviews[y].created_at
         IN  <<m>> \o OldestFirst(S \ {m})

RECURSIVE NewestFirst(_)
NewestFirst(S) ==
    IF S = {} THEN <<>>
    ELSE LET m == CHOOSE x \in S : \A y \in S : reviews[x].created_at >= reviews[y].created_at
         IN  <<m>> \o NewestFirst(S \ {m})

Take(s, n) == SubSeq(s, 1, Min(n, Len(s)))

QueuedRids == {r \in Rids : reviews[r].status = "queued"}

get_queued_reviews_newest(limit) == Take(NewestFirst(QueuedRids), limit)

\* SELECT * FROM reviews WHERE status = 'queued' ORDER BY created_at ASC LIMIT ?
get_queued_reviews(limit) == Take(OldestFirst(QueuedRids), limit)

\* -------------------------------------------------------------------- init
\* No run_review call is followed in detail.
NoSession == [pc |-> "absent"]

\* _run_server: the store is connected, the engine constructed and started.
InitScheduler ==
    /\ reviews = <<>>
    /\ agents = [t \in TaskSlots |-> "none"]
    /\ tasks = [t \in TaskSlots |-> IdleTask]
    /\ ntasks = 0
    /\ active_reviews = {}
    /\ running = TRUE
    /\ engine = [pc |-> "sleep", available |-> 0]
    /\ stopper = "none"
    /\ cancels = {}
    /\ ncancels = 0
    /\ faults = 0
    /\ max_concurrent_reviews \in 1..MaxCap
    /\ nats \in BOOLEAN

Init == InitScheduler /\ session = NoSession

\* ------------------------------------------------------------------ server
\* request_review / _on_nats_review_request: Review(...) is queued, created_at
\* is the (strictly increasing) time of its construction.
RequestReview(p) ==
    /\ stopper = "none"
    /\ Len(reviews) < ReviewLimit
    /\ reviews' = Append(reviews,
           [project |-> p, status |-> "queued", verdict |-> "none",
            error |-> NoText, created_at |-> Len(reviews) + 1,
            started_at |-> "null"])
    /\ UNCHANGED <<agents, tasks, ntasks, active_reviews, running, engine,
                   stopper, cancels, ncancels, faults,
                   max_concurrent_reviews, nats, session>>

\* cancel_review up to its write: get_review, then the status test.
CancelRead(r) ==
    /\ stopper = "none"
    /\ r \in Rids
    /\ r \notin cancels
    /\ reviews[r].status = "queued"
    /\ cancels' = cancels \cup {r}
    /\ ncancels < MaxCancels
    /\ ncancels' = ncancels + 1
    /\ UNCHANGED <<reviews, agents, tasks, ntasks, active_reviews, running,
                   engine, stopper, faults, max_concurrent_reviews, nats, session>>

\* cancel_review's update_review(status=FAILED, error="Cancelled by user").
CancelWrite(r) ==
    /\ r \in cancels
    /\ cancels' = cancels \ {r}
    /\ reviews' = update_review(r, [status |-> "failed", error |-> Text(CancelledMsgLen)])
    /\ UNCHANGED <<agents, tasks, ntasks, active_reviews, running, engine,
                   stopper, ncancels, faults, max_concurrent_reviews, nats, session>>

\* ------------------------------------------------------------------ engine
PollAvailableIgnoringActive(remaining) == max_concurrent_reviews

\* available = self.config.max_concurrent_reviews - len(self._active_reviews)
PollAvailable(remaining) == max_concurrent_reviews - Cardinality(remaining)

\* The reaping loop re-raising the exception of a task that failed.
ReapRaisesOnFailure(done) ==
    \E t \in done : tasks[t].pc \in {"cancelled", "raised"}

\* for t in done: if t.exception(): logger.error(...)
\* Task.exception() returns the exception of a task that raised and None for
\* one that returned; for a cancelled task it raises CancelledError.
ReapRaises(done) == \E t \in done : tasks[t].pc = "cancelled"

\* start(): the loop test, then _poll up to its first await.
PollStart ==
    /\ engine.pc = "sleep"
    /\ IF ~running
       THEN /\ engine' = [pc |-> "exited", available |-> 0]
            /\ UNCHANGED active_reviews
       ELSE LET done == {t \in active_reviews : TaskDone(t)}
                remaining == active_reviews \ done
                available == PollAvailable(remaining)
            IN  IF ReapRaises(done)
                THEN \* CancelledError is not an Exception: start() does not catch it
                     /\ engine' = [pc |-> "exited", available |-> 0]
                     /\ UNCHANGED active_reviews
                ELSE /\ active_reviews' = remaining
                     /\ engine' = IF available <= 0
                                  THEN [pc |-> "sleep", available |-> 0]
                                  ELSE [pc |-> "query", available |-> available]
    /\ UNCHANGED <<reviews, agents, tasks, ntasks, running, stopper, cancels,
                   ncancels, faults, max_concurrent_reviews, nats, session>>

\* _poll from the return of get_queued_reviews: one task per fetched review.
PollLaunch ==
    /\ engine.pc = "query"
    /\ LET queued == get_queued_reviews(engine.available)
           n == Len(queued)
       IN  /\ ntasks + n <= TaskLimit
           /\ tasks' = [t \in TaskSlots |->
                          IF t \in (ntasks + 1)..(ntasks + n)
                          THEN [IdleTask EXCEPT !.rid = queued[t - ntasks],
                                                !.pc = "get_review"]
                          ELSE tasks[t]]
           /\ active_reviews' = active_reviews \cup ((ntasks + 1)..(ntasks + n))
           /\ ntasks' = ntasks + n
    /\ engine' = [pc |-> "sleep", available |-> 0]
    /\ UNCHANGED <<reviews, agents, running, stopper, cancels, ncancels,
                   faults, max_concurrent_reviews, nats, session>>

\* get_queued_reviews raises and the exception leaves start().
PollFailsStopsLoop ==
    /\ engine.pc = "query"
    /\ faults < MaxFaults
    /\ faults' = faults + 1
    /\ engine' = [pc |-> "exited", available |-> 0]
    /\ UNCHANGED <<reviews, agents, tasks, ntasks, active_reviews, running,
                   stopper, cancels, ncancels, max_concurrent_reviews, nats, session>>

\* get_queued_reviews raises: start() logs "Engine poll error" and sleeps.
PollFails ==
    /\ engine.pc = "query"
    /\ faults < MaxFaults
    /\ faults' = faults + 1
    /\ engine' = [pc |-> "sleep", available |-> 0]
    /\ UNCHANGED <<reviews, agents, tasks, ntasks, active_reviews, running,
                   stopper, cancels, ncancels, max_concurrent_reviews, nats, session>>

\* task.add_done_callback(self._active_reviews.discard)
DoneCallback(t) ==
    /\ t \in active_reviews
    /\ TaskDone(t)
    /\ active_reviews' = active_reviews \ {t}
    /\ UNCHANGED <<reviews, agents, tasks, ntasks, running, engine, stopper,
                   cancels, ncancels, faults, max_concurrent_reviews, nats, session>>

\* stop() up to its await of gather, as _run_server calls it; with nothing
\* tracked it returns at once and _run_server cancels the engine task.
StopBegin ==
    /\ stopper = "none"
    /\ running' = FALSE
    /\ tasks' = [t \in TaskSlots |->
                   IF t \in active_reviews /\ ~TaskDone(t)
                   THEN [IdleTask EXCEPT !.rid = tasks[t].rid, !.pc = "cancelled"]
                   ELSE tasks[t]]
    /\ IF active_reviews = {}
       THEN /\ stopper' = "returned"
            /\ engine' = [pc |-> "exited", available |-> 0]
       ELSE /\ stopper' = "gather"
            /\ UNCHANGED engine
    /\ UNCHANGED <<reviews, agents, ntasks, active_reviews, cancels,
                   ncancels, faults, max_concurrent_reviews, nats, session>>

\* stop() from the return of gather: clear(), return; then engine_task.cancel().
StopReturn ==
    /\ stopper = "gather"
    /\ active_reviews' = {}
    /\ stopper' = "returned"
    /\ engine' = [pc |-> "exited", available |-> 0]
    /\ UNCHANGED <<reviews, agents, tasks, ntasks, running, cancels,
                   ncancels, faults, max_concurrent_reviews, nats, session>>

\* ------------------------------------------------------------ review tasks
Project(t) == reviews[tasks[t].rid].project

\* Provider creation taken to succeed for every provider type.
AfterStartedAnyProvider(t) == "create_agent"

\* _process_review after publish_review_started: _create_provider_for_project.
AfterStarted(t) ==
    IF ProviderError(Registry[Project(t)]).isnull THEN "create_agent" ELSE "fail_provider"

TaskVars(t, pc) == [tasks EXCEPT ![t].pc = pc]

\* _process_review after its terminal update_review.
AfterTerminal(t, event) == Ended(t, IF nats THEN event ELSE "finished")


\* review = await self.db.get_review(review_id); the project is not in the
\* registry: update_review(status=FAILED, error="Project ... not in
\* projects.yaml"); return
FailProject(t) ==
    /\ t \in Tids
    /\ tasks[t].pc = "get_review"
    /\ Project(t) \notin DOMAIN Registry
    /\ reviews' = update_review(tasks[t].rid,
                      [status |-> "failed", error |-> ProjectMissingError])
    /\ tasks' = Ended(t, "finished")
    /\ UNCHANGED <<agents, ntasks, active_reviews, running, engine, stopper,
                   cancels, ncancels, faults, max_concurrent_reviews, nats, session>>

\* review = await self.db.get_review(review_id); the project is registered:
\* update_review(status=IN_PROGRESS, started_at=_now())
MarkInProgress(t) ==
    /\ t \in Tids
    /\ tasks[t].pc = "get_review"
    /\ Project(t) \in DOMAIN Registry
    /\ reviews' = update_review(tasks[t].rid,
                      [status |-> "in_progress", started_at |-> "stamped"])
    /\ tasks' = TaskVars(t, IF nats THEN "publish_started" ELSE AfterStarted(t))
    /\ UNCHANGED <<agents, ntasks, active_reviews, running, engine, stopper,
                   cancels, ncancels, faults, max_concurrent_reviews, nats, session>>

\* await self.nats.publish_review_started(...)
PublishStarted(t) ==
    /\ t \in Tids
    /\ tasks[t].pc = "publish_started"
    /\ tasks' = TaskVars(t, AfterStarted(t))
    /\ UNCHANGED <<reviews, agents, ntasks, active_reviews, running, engine,
                   stopper, cancels, ncancels, faults,
                   max_concurrent_reviews, nats, session>>

\* except ValueError: update_review(status=FAILED, error=str(e)); return
FailProvider(t) ==
    /\ t \in Tids
    /\ tasks[t].pc = "fail_provider"
    /\ reviews' = update_review(tasks[t].rid,
                      [status |-> "failed",
                       error |-> ProviderError(Registry[Project(t)])])
    /\ tasks' = Ended(t, "finished")
    /\ UNCHANGED <<agents, ntasks, active_reviews, running, engine, stopper,
                   cancels, ncancels, faults, max_concurrent_reviews, nats, session>>

\* run_review: agent = await db.create_agent(agent)
CreateAgent(t) ==
    /\ t \in Tids
    /\ tasks[t].pc = "create_agent"
    /\ agents' = [agents EXCEPT ![t] = "starting"]
    /\ tasks' = TaskVars(t, "session")
    /\ UNCHANGED <<reviews, ntasks, active_reviews, running, engine, stopper,
                   cancels, ncancels, faults, max_concurrent_reviews, nats, session>>

\* _agent_loop: a turn whose response carries a submit_review tool call with
\* verdict argument v; the loop captures it and goes on to the next turn.
SessionSubmit(t, v) ==
    /\ t \in Tids
    /\ tasks[t].pc = "session"
    /\ tasks' = [tasks EXCEPT ![t].verdict = v]
    /\ UNCHANGED <<reviews, agents, ntasks, active_reviews, running, engine,
                   stopper, cancels, ncancels, faults,
                   max_concurrent_reviews, nats, session>>

\* _agent_loop returns (no tool calls, finish_reason stop, timeout or
\* max_turns); run_review sets agent.status = "done", review.verdict.
SessionEnd(t) ==
    /\ t \in Tids
    /\ tasks[t].pc = "session"
    /\ tasks' = [tasks EXCEPT ![t].agent_status = "done",
                              ![t].pc = "update_agent"]
    /\ UNCHANGED <<reviews, agents, ntasks, active_reviews, running, engine,
                   stopper, cancels, ncancels, faults,
                   max_concurrent_reviews, nats, session>>

\* A provider or completion call raises e inside run_review's try:
\* agent.status = "failed"; agent.error = str(e)[:500].
SessionFail(t, n) ==
    /\ t \in Tids
    /\ tasks[t].pc = "session"
    /\ tasks' = [tasks EXCEPT ![t].agent_status = "failed",
                              ![t].agent_error = Truncate(n),
                              ![t].pc = "update_agent"]
    /\ UNCHANGED <<reviews, agents, ntasks, active_reviews, running, engine,
                   stopper, cancels, ncancels, faults,
                   max_concurrent_reviews, nats, session>>

\* run_review: await db.update_agent(agent.id, status=agent.status, ...)
UpdateAgent(t) ==
    /\ t \in Tids
    /\ tasks[t].pc = "update_agent"
    /\ agents' = [agents EXCEPT ![t] = tasks[t].agent_status]
    /\ tasks' = TaskVars(t, IF tasks[t].agent_status = "done"
                            THEN "write_done" ELSE "write_failed")
    /\ UNCHANGED <<reviews, ntasks, active_reviews, running, engine, stopper,
                   cancels, ncancels, faults, max_concurrent_reviews, nats, session>>

\* update_review(status=DONE, verdict=review.verdict, ...)
WriteDone(t) ==
    /\ t \in Tids
    /\ tasks[t].pc = "write_done"
    /\ reviews' = update_review(tasks[t].rid,
                      [status |-> "done", verdict |-> tasks[t].verdict])
    /\ tasks' = AfterTerminal(t, "publish_completed")
    /\ UNCHANGED <<agents, ntasks, active_reviews, running, engine, stopper,
                   cancels, ncancels, faults, max_concurrent_reviews, nats, session>>

\* update_review(status=FAILED, error=agent.error, ...)
WriteFailed(t) ==
    /\ t \in Tids
    /\ tasks[t].pc = "write_failed"
    /\ reviews' = update_review(tasks[t].rid,
                      [status |-> "failed", error |-> tasks[t].agent_error])
    /\ tasks' = AfterTerminal(t, "publish_failed")
    /\ UNCHANGED <<agents, ntasks, active_reviews, running, engine, stopper,
                   cancels, ncancels, faults, max_concurrent_reviews, nats, session>>

\* await self.nats.publish_review_completed(...) / publish_review_failed(...)
PublishTerminal(t) ==
    /\ t \in Tids
    /\ tasks[t].pc \in {"publish_completed", "publish_failed"}
    /\ tasks' = Ended(t, "finished")
    /\ UNCHANGED <<reviews, agents, ntasks, active_reviews, running, engine,
                   stopper, cancels, ncancels, faults,
                   max_concurrent_reviews, nats, session>>

\* The store and event-bus calls of a task that no try block encloses.
UnguardedCalls == {"get_review", "publish_started",
                   "fail_provider", "create_agent", "update_agent",
                   "write_done", "write_failed", "publish_completed",
                   "publish_failed"}

\* One of them raises: the exception ends the task.
TaskRaises(t) ==
    /\ t \in Tids
    /\ tasks[t].pc \in UnguardedCalls
    /\ faults < MaxFaults
    /\ faults' = faults + 1
    /\ tasks' = Ended(t, "raised")
    /\ UNCHANGED <<reviews, agents, ntasks, active_reviews, running, engine,
                   stopper, cancels, ncancels, max_concurrent_reviews, nats, session>>

\* -------------------------------------------------------------------- next
Next ==
    \/ \E p \in ProjectKeys : RequestReview(p)
    \/ \E r \in ReviewSlots : CancelRead(r)
    \/ \E r \in ReviewSlots : CancelWrite(r)
    \/ PollStart
    \/ PollLaunch
    \/ PollFails
    \/ StopBegin
    \/ StopReturn
    \/ \E t \in TaskSlots :
          \/ DoneCallback(t)
          \/ FailProject(t)
          \/ MarkInProgress(t)
          \/ PublishStarted(t)
          \/ FailProvider(t)
          \/ CreateAgent(t)
          \/ \E v \in VerdictArgs : SessionSubmit(t, v)
          \/ SessionEnd(t)
          \/ \E n \in ExcMessageLens : SessionFail(t, n)
          \/ UpdateAgent(t)
          \/ WriteDone(t)
          \/ WriteFailed(t)
          \/ PublishTerminal(t)
          \/ TaskRaises(t)

Spec == Init /\ [][Next]_vars

\* The scheduler configured with a capacity of one.
InitFifo == Init /\ max_concurrent_reviews = 1

SpecFifo == InitFifo /\ [][Next]_vars

\* ------------------------------------------------------------------ claims
InProgress == {r \in Rids : reviews[r].status = "in_progress"}

\* C1: while the scheduler runs, the number of reviews whose stored status is
\* in_progress is at most max_concurrent_reviews.
C1_InProgressBounded ==
    running => Cardinality(InProgress) <= max_concurrent_reviews

\* C2: the active-task set never holds more than max_concurrent_reviews tasks,
\* and a poll cycle adds no more tasks to it than max_concurrent_reviews minus
\* the number it holds (none when that is <= 0).
C2_ActiveBounded ==
    /\ [](Cardinality(active_reviews) <= max_concurrent_reviews)
    /\ [][Cardinality(active_reviews' \ active_reviews)
            <= max_concurrent_reviews - Cardinality(active_reviews)]_vars

\* A poll cycle has filled the active set to capacity with live tasks while a
\* queued review is left waiting.
C2_Witness ==
    /\ running
    /\ Cardinality(active_reviews) = max_concurrent_reviews
    /\ \A t \in active_reviews : ~TaskDone(t)
    /\ QueuedRids # {}

\* C3: with max_concurrent_reviews = 1, reviews become in_progress in creation
\* order: when a review becomes in_progress no earlier-created review is still
\* queued and no later-created review has been started.
C3_FifoAdmission ==
    [][\A i \in Rids :
          (reviews[i].status # "in_progress" /\ reviews'[i].status = "in_progress")
          => \A j \in Rids :
                /\ reviews[j].created_at < reviews[i].created_at
                      => reviews[j].status # "queued"
                /\ reviews[j].created_at > reviews[i].created_at
                      => reviews[j].started_at = "null"]_vars

\* Three reviews were queued together; the first two were started and have
\* ended, and the third is in progress.
C3_Witness ==
    /\ max_concurrent_reviews = 1
    /\ Len(reviews) = 3
    /\ \A r \in {1, 2} : /\ reviews[r].started_at = "stamped"
                         /\ reviews[r].status \in {"done", "failed"}
    /\ reviews[3].status = "in_progress"
    /\ ncancels = 0

\* C4: once stop() has returned, every task the engine tracked has finished or
\* been cancelled and the active set is, and stays, empty.
C4_StopLeavesNothing ==
    stopper = "returned" =>
        /\ active_reviews = {}
        /\ \A t \in Tids : TaskDone(t)

\* C5: once stop() has returned, no review whose session task was cancelled is
\* left in_progress without an error.
C5_CancelledNotAbandoned ==
    stopper = "returned" =>
        \A t \in Tids :
            tasks[t].pc = "cancelled"
            => ~(/\ reviews[tasks[t].rid].status = "in_progress"
                 /\ reviews[tasks[t].rid].error.isnull)

\* C6: when the scheduler records the outcome of a session that captured a
\* submit_review call with verdict approve, the review is done with verdict
\* approve and no error.
C6_ApproveYieldsDone ==
    [][\A t \in Tids :
          (/\ tasks[t].pc \in {"write_done", "write_failed"}
           /\ tasks[t].verdict = "approve"
           /\ tasks'[t].pc \in {"finished", "publish_completed", "publish_failed"})
          => /\ reviews'[tasks[t].rid].status = "done"
             /\ reviews'[tasks[t].rid].verdict = "approve"
             /\ reviews'[tasks[t].rid].error.isnull]_vars

\* C7: every review with status done has verdict approve or request_changes.
C7_DoneHasVerdict ==
    \A r \in Rids : reviews[r].status = "done" => reviews[r].verdict \in Verdicts

\* C8: every review with status failed has a non-empty error.
C8_FailedHasError ==
    \A r \in Rids :
        reviews[r].status = "failed"
        => ~reviews[r].error.isnull /\ reviews[r].error.len > 0

\* C9: a review's verdict is set only when its status is done.
C9_VerdictOnlyWhenDone ==
    \A r \in Rids : reviews[r].verdict # "none" => reviews[r].status = "done"

\* C10: a review's error is set only when its status is failed.
C10_ErrorOnlyWhenFailed ==
    \A r \in Rids : ~reviews[r].error.isnull => reviews[r].status = "failed"

\* C11: every change of a review's stored status made by the scheduler (any
\* step other than cancel_review's write) is queued -> in_progress,
\* in_progress -> done or in_progress -> failed.
C11_SchedulerTransitions ==
    [][(cancels' = cancels /\ Len(reviews') = Len(reviews))
       => \A r \in Rids :
             reviews'[r].status # reviews[r].status
             => <<reviews[r].status, reviews'[r].status>>
                    \in {<<"queued", "in_progress">>, <<"in_progress", "done">>,
                         <<"in_progress", "failed">>}]_vars

\* =========================================================================
\* One review session in detail: run_review and _agent_loop (agent.py) with the
\* ToolExecutor (tools.py), followed to the terminal write of _process_review.
\* =========================================================================

\* ------------------------------------------------------ program constants
\* max_turns = 30
max_turns == 30
\* if len(diff) > 100_000
DiffCeiling == 100000

\* ---------------------------------------------------------------- bounds
\* Tool calls carried by one completion response.
MaxCalls == 2
\* Inline comments posted during one session.
MaxComments == 2

\* ------------------------------------------------------------------ values
\* The tools of TOOL_DEFINITIONS, and a name that is none of them.
ToolNames == {"get_mr_diff", "get_changed_files", "read_file", "search_code",
              "list_files", "get_mr_comments", "post_inline_comment",
              "submit_review"}
UnknownTool == "no_such_tool"

\* A decoded argument value. A JSON object is given by what the tools read from
\* it: whether the tool's required arguments (path; pattern; file_path and
\* body) are present and non-empty, and its "verdict" member ("none": absent).
\* Any other JSON value (an array, a number, null) is not a map.
\* path tells where a given path or glob pattern leads: to a place inside the
\* checkout, or out of it as an absolute path ("/etc/passwd") or through ".."
\* components ("../other/secret").
PathKinds == {"inside", "absolute", "dotdot"}
ArgMaps == [kind : {"map"}, required : BOOLEAN, verdict : VerdictArgs,
            path : PathKinds]
NotAMap == [kind |-> "not_a_map", required |-> FALSE, verdict |-> "none",
            path |-> "inside"]
EmptyMap == [kind |-> "map", required |-> FALSE, verdict |-> "none",
             path |-> "inside"]

\* tool_call.function.arguments: a text that is not JSON, or the JSON text of
\* a value.
ArgTexts == {[json |-> FALSE, value |-> EmptyMap]}
            \cup {[json |-> TRUE, value |-> v] : v \in ArgMaps \cup {NotAMap}}

\* try: fn_args = json.loads(...)  except json.JSONDecodeError: fn_args = {}
ParseArgs(text) == IF text.json THEN text.value ELSE EmptyMap

\* Lengths of the diffs the provider returns.
DiffLens == {0, DiffCeiling - 1, DiffCeiling, DiffCeiling + 1, 150000}

\* What a tool call finds outside the process: whether the provider call
\* succeeds, the length of the diff, and what the file system or the rg
\* subprocess does ("found", "absent": no such file / no match, "fails": the
\* access raises or rg exits with an error).
Envs == [provider_ok : BOOLEAN, diff_len : DiffLens,
         local : {"found", "absent", "fails"}]

\* A tool result: a structured error json.dumps({"error": ...}), or a text.
\* For a diff, taken is the number of leading characters of the diff that the
\* result starts with and marker tells whether the truncation marker follows.
ErrorResult == [kind |-> "error", taken |-> 0, marker |-> FALSE]
TextResult == [kind |-> "text", taken |-> 0, marker |-> FALSE]
\* The content or the names of files that lie outside the checkout.
OutsideResult == [kind |-> "outside", taken |-> 0, marker |-> FALSE]
DiffResult(taken, marker) == [kind |-> "diff", taken |-> taken, marker |-> marker]

\* What a capability does: it raises, or returns a result; posted counts the
\* comments it posted and touched tells whether it reached the file system or
\* started a subprocess.
Raises(touched) == [raises |-> TRUE, result |-> ErrorResult, posted |-> 0,
                    touched |-> touched]
Returns(result, posted, touched) ==
    [raises |-> FALSE, result |-> result, posted |-> posted, touched |-> touched]

\* ----------------------------------------------------------- ToolExecutor
\* _get_diff truncating from the ceiling on.
_get_diff_from_ceiling(env) ==
    IF ~env.provider_ok THEN Raises(FALSE)
    ELSE IF env.diff_len >= DiffCeiling
         THEN Returns(DiffResult(Min(env.diff_len, DiffCeiling), TRUE), 0, FALSE)
         ELSE Returns(DiffResult(env.diff_len, FALSE), 0, FALSE)

\* diff = await self.provider.get_diff(...); if len(diff) > 100_000: return
\* diff[:100_000] + "\n\n... [diff truncated ...]"; return diff
_get_diff(env) ==
    IF ~env.provider_ok THEN Raises(FALSE)
    ELSE IF env.diff_len > DiffCeiling
         THEN Returns(DiffResult(Min(env.diff_len, DiffCeiling), TRUE), 0, FALSE)
         ELSE Returns(DiffResult(env.diff_len, FALSE), 0, FALSE)

\* _get_changed_files, _get_comments: json.dumps of the provider's answer.
_get_from_provider(env) ==
    IF env.provider_ok THEN Returns(TextResult, 0, FALSE) ELSE Raises(FALSE)

\* _read_file testing the checkout path after the file.
_read_file_unchecked(args, repo_path, env) ==
    IF args.kind # "map" THEN Raises(FALSE)
    ELSE IF ~args.required THEN Returns(ErrorResult, 0, FALSE)
    ELSE IF env.local = "absent" THEN Returns(ErrorResult, 0, TRUE)
    ELSE IF ~repo_path THEN Returns(ErrorResult, 0, TRUE)
    ELSE IF env.local = "fails" THEN Raises(TRUE)
    ELSE Returns(TextResult, 0, TRUE)

\* path = args.get("path", ""); "path is required"; "No local repo path
\* configured"; file_path = Path(self.repo_path) / path (an absolute path
\* replaces the base, ".." components stay in the path); then
\* file_path.exists(), is_file(), read_text().
_read_file(args, repo_path, env) ==
    IF args.kind # "map" THEN Raises(FALSE)
    ELSE IF ~args.required THEN Returns(ErrorResult, 0, FALSE)
    ELSE IF ~repo_path THEN Returns(ErrorResult, 0, FALSE)
    ELSE IF env.local = "absent" THEN Returns(ErrorResult, 0, TRUE)
    ELSE IF env.local = "fails" THEN Raises(TRUE)
    ELSE IF args.path = "inside" THEN Returns(TextResult, 0, TRUE)
    ELSE Returns(OutsideResult, 0, TRUE)

\* pattern = args.get("pattern", ""); "pattern is required"; "No local repo
\* path configured"; then subprocess.run(["rg", ...]): matches, "No matches
\* found.", or an error (rg failed, not installed, timed out).
_search_code(args, repo_path, env) ==
    IF args.kind # "map" THEN Raises(FALSE)
    ELSE IF ~args.required THEN Returns(ErrorResult, 0, FALSE)
    ELSE IF ~repo_path THEN Returns(ErrorResult, 0, FALSE)
    ELSE IF env.local = "fails" THEN Returns(ErrorResult, 0, TRUE)
    ELSE Returns(TextResult, 0, TRUE)

\* pattern = args.get("pattern", ""); "pattern is required"; "No local repo
\* path configured"; then Path(self.repo_path).glob(pattern): an absolute
\* pattern raises NotImplementedError, ".." components are followed; the
\* matches that are files are returned by m.relative_to(base), which compares
\* the path components as written.
_list_files(args, repo_path, env) ==
    IF args.kind # "map" THEN Raises(FALSE)
    ELSE IF ~args.required THEN Returns(ErrorResult, 0, FALSE)
    ELSE IF ~repo_path THEN Returns(ErrorResult, 0, FALSE)
    ELSE IF args.path = "absolute" THEN Raises(FALSE)
    ELSE IF env.local = "fails" THEN Raises(TRUE)
    ELSE IF args.path = "dotdot" /\ env.local = "found"
    THEN Returns(OutsideResult, 0, TRUE)
    ELSE Returns(TextResult, 0, TRUE)

\* _post_inline_comment counting the posts it rejects as well.
_post_inline_comment_counting_rejected(args, env) ==
    IF args.kind # "map" THEN Raises(FALSE)
    ELSE IF ~args.required THEN Returns(ErrorResult, 1, FALSE)
    ELSE IF ~env.provider_ok THEN Raises(FALSE)
    ELSE Returns(TextResult, 1, FALSE)

\* "file_path and body are required"; await provider.post_inline_comment(...);
\* self.comments_posted += 1
_post_inline_comment(args, env) ==
    IF args.kind # "map" THEN Raises(FALSE)
    ELSE IF ~args.required THEN Returns(ErrorResult, 0, FALSE)
    ELSE IF ~env.provider_ok THEN Raises(FALSE)
    ELSE Returns(TextResult, 1, FALSE)

\* verdict = args.get("verdict", "request_changes"); await
\* provider.submit_review(...); return json.dumps(result)
_submit_review(args, env) ==
    IF args.kind # "map" THEN Raises(FALSE)
    ELSE IF ~env.provider_ok THEN Raises(FALSE)
    ELSE Returns(TextResult, 0, FALSE)

\* The dispatch of ToolExecutor.execute, inside its try block.
Dispatch(tool_name, arguments, repo_path, env) ==
    CASE tool_name = "get_mr_diff" -> _get_diff(env)
      [] tool_name \in {"get_changed_files", "get_mr_comments"} -> _get_from_provider(env)
      [] tool_name = "read_file" -> _read_file(arguments, repo_path, env)
      [] tool_name = "search_code" -> _search_code(arguments, repo_path, env)
      [] tool_name = "list_files" -> _list_files(arguments, repo_path, env)
      [] tool_name = "post_inline_comment" -> _post_inline_comment(arguments, env)
      [] tool_name = "submit_review" -> _submit_review(arguments, env)
      [] OTHER -> Returns(ErrorResult, 0, FALSE)

\* ToolExecutor.execute: except Exception as e: return json.dumps({"error": str(e)})
execute(tool_name, arguments, repo_path, env) ==
    LET r == Dispatch(tool_name, arguments, repo_path, env)
    IN  IF r.raises THEN Returns(ErrorResult, 0, r.touched) ELSE r

\* ------------------------------------------------------------ the session
\* The argument texts and surroundings that make a difference to a tool. A
\* "verdict" member is also given to post_inline_comment, which does not read it.
ArgTextsFor(tool_name) ==
    {text \in ArgTexts :
        /\ tool_name \notin {"read_file", "search_code", "list_files",
                             "post_inline_comment"} => ~text.value.required
        /\ tool_name \notin {"submit_review", "post_inline_comment"}
              => text.value.verdict = "none"
        /\ (tool_name \notin {"read_file", "list_files"} \/ ~text.value.required)
              => text.value.path = "inside"}

EnvsFor(tool_name) ==
    {env \in Envs :
        /\ (tool_name # "get_mr_diff" \/ ~env.provider_ok) => env.diff_len = 0
        /\ tool_name \in {"read_file", "search_code", "list_files", UnknownTool}
              => env.provider_ok
        /\ tool_name \notin {"read_file", "search_code", "list_files"}
              => env.local = "found"}

\* run_review entered by _process_review for a review it has marked
\* in_progress; repo_path tells whether the project has a local checkout.
StartSession(repo_path) ==
    [pc |-> "create_agent",
     repo_path |-> repo_path,
     \* _agent_loop
     num_turns |-> 0, timed_out |-> FALSE, verdict |-> "none",
     ncalls |-> 0, answered |-> 0,
     \* messages: the tool_call_id of the tool messages that follow the last
     \* assistant message (the i-th tool call of a response has id i)
     tool_msgs |-> <<>>,
     \* ToolExecutor
     comments_posted |-> 0,
     \* Agent, Review (the objects) and their rows in the store
     agent_status |-> "starting", agent_error |-> NoText, agent_num_turns |-> 0,
     review_verdict |-> "none", review_comments_posted |-> 0,
     agent_row |-> "none",
     stored |-> [status |-> "in_progress", verdict |-> "none", error |-> NoText,
                 comments_posted |-> 0],
     \* history: a submit_review call was dispatched; what ended the loop; the
     \* number of provider post_inline_comment calls
     \* that returned; the verdicts of the provider submit_review calls that returned
     submitted |-> FALSE, ended_by |-> "none", posts_accepted |-> 0,
     accepted |-> {}]

\* A loop that has ended taken as a failure of the session.
FinishedAsFailed(s, ended_by) ==
    [s EXCEPT !.agent_status = "failed", !.agent_num_turns = s.num_turns,
              !.review_verdict = s.verdict,
              !.review_comments_posted = s.comments_posted, !.ended_by = ended_by,
              !.pc = "update_agent"]

\* run_review after _agent_loop returned: agent.status = "done";
\* review.verdict = result.get("verdict"); then db.update_agent is awaited.
\* ended_by records what ended the loop.
Finished(s, ended_by) ==
    [s EXCEPT !.agent_status = "done", !.agent_num_turns = s.num_turns,
              !.review_verdict = s.verdict,
              !.review_comments_posted = s.comments_posted, !.ended_by = ended_by,
              !.pc = "update_agent"]

\* run_review's except Exception as e: agent.status = "failed";
\* agent.error = str(e)[:500]; then db.update_agent is awaited.
Failed(s, n) ==
    [s EXCEPT !.agent_status = "failed", !.agent_error = Truncate(n),
              !.ended_by = "exception", !.pc = "update_agent"]

\* agent = await db.create_agent(agent)
AgentCreate ==
    /\ session.pc = "create_agent"
    /\ session' = [session EXCEPT !.agent_row = "starting", !.pc = "setup"]
    /\ UNCHANGED scheduler_vars

\* provider.get_pr, provider.get_changed_files, build_prompt, ToolExecutor(...);
\* a provider call may raise an exception whose message has n characters.
AgentSetup(ok, n) ==
    /\ session.pc = "setup"
    /\ session' = IF ok THEN [session EXCEPT !.pc = "turn"] ELSE Failed(session, n)
    /\ UNCHANGED scheduler_vars

\* time.time() - start_time comes to exceed config.agent_timeout.
TimePasses ==
    /\ session.pc \in {"turn", "completion", "tools"}
    /\ ~session.timed_out
    /\ session' = [session EXCEPT !.timed_out = TRUE]
    /\ UNCHANGED scheduler_vars

WithinTurnsInclusive(s) == s.num_turns <= max_turns

\* while num_turns < max_turns:
WithinTurns(s) == s.num_turns < max_turns

\* The loop test and the timeout test; then num_turns += 1 and
\* litellm.acompletion(...) is awaited.
LoopTest ==
    /\ session.pc = "turn"
    /\ session' = IF ~WithinTurns(session) THEN Finished(session, "max_turns")
                  ELSE IF session.timed_out THEN Finished(session, "timeout")
                  ELSE [session EXCEPT !.num_turns = @ + 1, !.pc = "completion"]
    /\ UNCHANGED scheduler_vars

\* The break test looking at the tool calls only.
CompletionIgnoringStop(finish_reason, n) ==
    /\ session.pc = "completion"
    /\ LET appended == [session EXCEPT !.tool_msgs = <<>>]
       IN  session' = IF n = 0
                      THEN [appended EXCEPT !.agent_status = "done",
                                            !.agent_num_turns = session.num_turns,
                                            !.review_verdict = session.verdict,
                                            !.review_comments_posted =
                                                session.comments_posted,
                                            !.ended_by = "stop",
                                            !.pc = "update_agent"]
                      ELSE [appended EXCEPT !.ncalls = n, !.answered = 0,
                                            !.pc = "tools"]
    /\ UNCHANGED scheduler_vars

\* The completion call returns a response with finish_reason and n tool calls:
\* messages.append(message.model_dump(...)), then
\* if choice.finish_reason == "stop" or not message.tool_calls: break
Completion(finish_reason, n) ==
    /\ session.pc = "completion"
    /\ LET appended == [session EXCEPT !.tool_msgs = <<>>]
       IN  session' = IF finish_reason = "stop" \/ n = 0
                      THEN Finished(appended, "stop")
                      ELSE [appended EXCEPT !.ncalls = n, !.answered = 0,
                                            !.pc = "tools"]
    /\ UNCHANGED scheduler_vars

\* The completion call raises and the loop sends the request again.
CompletionRetried(n) ==
    /\ session.pc = "completion"
    /\ session' = [session EXCEPT !.ended_by = "completion_error", !.pc = "turn"]
    /\ UNCHANGED scheduler_vars

\* The completion call raises an exception whose message has n characters:
\* except Exception as e: log.write(...); raise
CompletionFails(n) ==
    /\ session.pc = "completion"
    /\ session' = [Failed(session, n) EXCEPT !.ended_by = "completion_error"]
    /\ UNCHANGED scheduler_vars

\* The tool message left out when the result is a structured error.
ToolMessageUnlessError(messages, tool_call_id, result) ==
    IF result = ErrorResult THEN messages ELSE Append(messages, tool_call_id)

\* messages.append({"role": "tool", "tool_call_id": tool_call.id,
\*                  "content": result})
ToolMessage(messages, tool_call_id, result) == Append(messages, tool_call_id)

\* The "verdict" argument captured from the call of any tool.
CapturedVerdictAnyTool(tool_name, fn_args, verdict) == fn_args.verdict

\* if fn_name == "submit_review": verdict = fn_args.get("verdict")
CapturedVerdict(tool_name, fn_args, verdict) ==
    IF tool_name = "submit_review" THEN fn_args.verdict ELSE verdict

\* The provider's post_inline_comment is called and returns: the call is one of
\* post_inline_comment with file_path and body, and the provider accepts it.
PostAccepted(tool_name, fn_args, env) ==
    /\ tool_name = "post_inline_comment"
    /\ fn_args.kind = "map"
    /\ fn_args.required
    /\ env.provider_ok

\* The verdicts the provider's submit_review has received and accepted after
\* this call: _submit_review sends args.get("verdict", "request_changes").
SubmitAccepted(tool_name, fn_args, env, accepted) ==
    IF tool_name = "submit_review" /\ fn_args.kind = "map" /\ env.provider_ok
    THEN accepted \cup {IF fn_args.verdict = "none" THEN "request_changes"
                        ELSE fn_args.verdict}
    ELSE accepted

\* One tool call of the response: fn_args is parsed, executor.execute is
\* awaited, the verdict of a submit_review call is captured with
\* fn_args.get("verdict") and the tool message is appended. Nothing encloses
\* these statements, so an exception ('list' object has no attribute 'get',
\* 37 characters) leaves _agent_loop.
ToolCall(tool_name, text, env) ==
    /\ session.pc = "tools"
    /\ LET fn_args == ParseArgs(text)
           out == execute(tool_name, fn_args, session.repo_path, env)
           called == [session EXCEPT
                         !.comments_posted = @ + out.posted,
                         !.posts_accepted =
                             IF PostAccepted(tool_name, fn_args, env)
                             THEN @ + 1 ELSE @,
                         !.accepted = SubmitAccepted(tool_name, fn_args, env, @),
                         !.submitted = @ \/ tool_name = "submit_review"]
       IN  /\ session.comments_posted + out.posted <= MaxComments
           /\ session' =
                IF out.raises THEN Failed(called, 37)
                ELSE IF tool_name = "submit_review" /\ fn_args.kind # "map"
                THEN Failed(called, 37)
                ELSE [called EXCEPT
                         !.verdict = CapturedVerdict(tool_name, fn_args, @),
                         !.answered = @ + 1,
                         !.tool_msgs = ToolMessage(@, session.answered + 1,
                                                   out.result),
                         !.pc = IF session.answered + 1 = session.ncalls
                                THEN "turn" ELSE "tools"]
    /\ UNCHANGED scheduler_vars

\* await db.update_agent(agent.id, status=agent.status, ...); return agent
AgentUpdate ==
    /\ session.pc = "update_agent"
    /\ session' = [session EXCEPT !.agent_row = session.agent_status,
                                  !.pc = "write_review"]
    /\ UNCHANGED scheduler_vars

\* _process_review: if agent.status == "done": update_review(status=DONE,
\* verdict=review.verdict, ...) else: update_review(status=FAILED,
\* error=agent.error, ...)
ReviewWrite ==
    /\ session.pc = "write_review"
    /\ session' = [session EXCEPT
                      !.stored = IF session.agent_status = "done"
                                 THEN [@ EXCEPT !.status = "done",
                                                !.verdict = session.review_verdict,
                                                !.comments_posted =
                                                    session.review_comments_posted]
                                 ELSE [@ EXCEPT !.status = "failed",
                                                !.error = session.agent_error],
                      !.pc = "ended"]
    /\ UNCHANGED scheduler_vars

FinishReasons == {"stop", "tool_calls", "length"}

NextSession ==
    \/ AgentCreate
    \/ \E ok \in BOOLEAN, n \in ExcMessageLens : AgentSetup(ok, n)
    \/ TimePasses
    \/ LoopTest
    \/ \E finish_reason \in FinishReasons, n \in 0..MaxCalls :
          Completion(finish_reason, n)
    \/ \E n \in ExcMessageLens : CompletionFails(n)
    \/ \E tool_name \in ToolNames \cup {UnknownTool} :
          \E text \in ArgTextsFor(tool_name), env \in EnvsFor(tool_name) :
             ToolCall(tool_name, text, env)
    \/ AgentUpdate
    \/ ReviewWrite

\* A session started for a review of a project with or without a checkout.
InitSession ==
    /\ InitScheduler
    /\ max_concurrent_reviews = 1
    /\ ~nats
    /\ \E repo_path \in BOOLEAN : session = StartSession(repo_path)

SpecSession == InitSession /\ [][NextSession]_vars

\* ----------------------------------------------------- claims: the session
\* C12: num_turns never exceeds max_turns, and a session whose loop ends on the
\* turn budget without a submit_review call returns no verdict and num_turns
\* equal to max_turns.
C12_TurnBudget ==
    /\ session.num_turns <= max_turns
    /\ (session.ended_by = "max_turns" /\ ~session.submitted)
       => /\ session.review_verdict = "none"
          /\ session.agent_num_turns = max_turns

\* The loop has ended on the turn budget with no submit_review call.
C12_Witness ==
    /\ session.ended_by = "max_turns"
    /\ ~session.submitted
    /\ session.pc = "ended"

\* C13: once a submit_review tool call has been dispatched, the session sends
\* no further completion call.
C13_SubmitEndsLoop ==
    [][session.submitted => ~(session.pc = "turn" /\ session'.pc = "completion")]_vars

\* C14: a review whose session ends on max_turns or on agent_timeout without a
\* submit_review call ends with status failed and no verdict.
C14_ExhaustedIsFailed ==
    (/\ session.pc = "ended"
     /\ session.ended_by \in {"max_turns", "timeout"}
     /\ ~session.submitted)
    => /\ session.stored.status = "failed"
       /\ session.stored.verdict = "none"

\* C15: a tool call whose argument text is not valid JSON, or is JSON that is
\* not an argument map, has an empty map passed to execute, and the session
\* does not fail.
C15_MalformedArgs ==
    [][\A tool_name \in ToolNames \cup {UnknownTool} :
          \A text \in ArgTextsFor(tool_name), env \in EnvsFor(tool_name) :
             (/\ ~text.json \/ text.value.kind # "map"
              /\ ToolCall(tool_name, text, env))
             => /\ ParseArgs(text) = EmptyMap
                /\ session'.agent_status # "failed"]_vars

\* C16: for every tool name and any arguments execute does not raise, a failure
\* inside a capability comes back as a structured error, the tool message of
\* the call is appended and the session does not become failed.
C16_ToolFailuresContained ==
    [][\A tool_name \in ToolNames \cup {UnknownTool} :
          \A text \in ArgTextsFor(tool_name), env \in EnvsFor(tool_name) :
             ToolCall(tool_name, text, env)
             => LET fn_args == ParseArgs(text)
                    inner == Dispatch(tool_name, fn_args, session.repo_path, env)
                    out == execute(tool_name, fn_args, session.repo_path, env)
                IN  /\ ~out.raises
                    /\ inner.raises => out.result = ErrorResult
                    /\ session'.answered = session.answered + 1
                    /\ session'.agent_status # "failed"]_vars

\* C21: after a completion call has raised, the session makes no further
\* completion call, its Agent Session is recorded with status failed and its
\* review with status failed.
C21_CompletionFailureFatal ==
    session.ended_by = "completion_error"
    => /\ session.pc \in {"update_agent", "write_review", "ended"}
       /\ session.agent_status = "failed"
       /\ session.pc \in {"write_review", "ended"} => session.agent_row = "failed"
       /\ session.pc = "ended" => session.stored.status = "failed"

\* The completion call of the second turn raised and the session has ended.
C21_Witness ==
    /\ session.ended_by = "completion_error"
    /\ session.num_turns = 2
    /\ session.pc = "ended"

\* C22: when a completion call is sent after a turn, the message history holds,
\* after that turn's assistant message, exactly one tool message for every
\* tool call of the turn, in order, each with that call's id.
C22_TurnsSequential ==
    [][(session.pc = "turn" /\ session'.pc = "completion" /\ session.num_turns >= 1)
       => /\ session.ncalls >= 1
          /\ session.tool_msgs = [i \in 1..session.ncalls |-> i]]_vars

\* The second completion call is being sent after a turn with two tool calls.
C22_Witness ==
    /\ session.pc = "completion"
    /\ session.num_turns = 2
    /\ session.ncalls = 2
    /\ session.tool_msgs = <<1, 2>>

\* C28: when the loop test finds the elapsed time over agent_timeout, the loop
\* ends without another completion call and the Agent Session is recorded
\* with status done.
C28_TimeoutSoftStop ==
    /\ [][(session.pc = "turn" /\ session.timed_out /\ session' # session)
          => /\ session'.pc = "update_agent"
             /\ session'.agent_status = "done"
             /\ session'.num_turns = session.num_turns]_vars
    /\ [](session.ended_by = "timeout"
          => /\ session.pc \in {"update_agent", "write_review", "ended"}
             /\ session.agent_status = "done"
             /\ session.pc \in {"write_review", "ended"} => session.agent_row = "done")

\* The time ran out during the second turn and the session has ended.
C28_Witness ==
    /\ session.ended_by = "timeout"
    /\ session.num_turns = 2
    /\ session.pc = "ended"
    /\ session.agent_row = "done"

\* C29: a completion response with no tool calls, or with finish_reason stop,
\* ends the loop on that turn: none of its tool calls is dispatched (no verdict
\* is captured, no comment posted, no tool message appended) and no further
\* completion call is made.
C29_StopEndsLoop ==
    /\ [][\A finish_reason \in FinishReasons, n \in 0..MaxCalls :
             (Completion(finish_reason, n) /\ (finish_reason = "stop" \/ n = 0))
             => /\ session'.pc = "update_agent"
                /\ session'.ended_by = "stop"
                /\ session'.submitted = session.submitted
                /\ session'.verdict = session.verdict
                /\ session'.comments_posted = session.comments_posted
                /\ session'.tool_msgs = <<>>]_vars
    /\ [](session.ended_by = "stop"
          => session.pc \in {"update_agent", "write_review", "ended"})

\* The response of the second turn ended the loop; no submit_review call was
\* ever dispatched.
C29_Witness ==
    /\ session.ended_by = "stop"
    /\ session.num_turns = 2
    /\ ~session.submitted
    /\ session.pc = "ended"

\* C30: the session carries a verdict, in the loop and in its result, only if a
\* submit_review tool call was dispatched during the session; a session ended
\* by max_turns or by the timeout without one returns no verdict.
C30_VerdictOnlyBySubmit ==
    /\ session.verdict # "none" => session.submitted
    /\ session.review_verdict # "none" => session.submitted
    /\ session.stored.verdict # "none" => session.submitted
    /\ (session.ended_by \in {"max_turns", "timeout"} /\ ~session.submitted)
       => session.review_verdict = "none"

\* Tool calls were dispatched and comments posted, none of them submit_review,
\* before the timeout ended the session: the review is stored without verdict.
C30_Witness ==
    /\ session.ended_by = "timeout"
    /\ session.comments_posted >= 1
    /\ ~session.submitted
    /\ session.pc = "ended"
    /\ session.stored.verdict = "none"

C39_VerdictWasAccepted ==
    (/\ session.pc = "ended"
     /\ session.stored.status = "done"
     /\ session.stored.verdict # "none")
    => session.stored.verdict \in session.accepted

\* C40: the Agent Session record that run_review writes at its end has num_turns
\* equal to the number of completion calls the session made (the loop's
\* num_turns), for a session that ends failed as for one that ends done.
C40_TurnsRecorded ==
    session.pc \in {"write_review", "ended"}
    => session.agent_num_turns = session.num_turns

\* =========================================================================
\* The ToolExecutor on its own: execute applied to any tool name, arguments
\* and surroundings.
\* =========================================================================
NoCall == [name |-> "none", arguments |-> EmptyMap,
           env |-> [provider_ok |-> TRUE, diff_len |-> 0, local |-> "found"]]

\* ToolExecutor.__init__, with or without a local checkout path.
NewExecutor(repo_path) ==
    [pc |-> "executor", repo_path |-> repo_path, comments_posted |-> 0,
     \* the last call of execute: what it was given, whether it raised, what
     \* it returned and whether it reached the file system or a subprocess
     last_call |-> NoCall, raised |-> FALSE, result |-> ErrorResult,
     touched |-> FALSE]

\* await executor.execute(tool_name, arguments)
ExecutorCall(tool_name, arguments, env) ==
    /\ session.pc = "executor"
    /\ LET out == execute(tool_name, arguments, session.repo_path, env)
       IN  /\ session.comments_posted + out.posted <= MaxComments
           /\ session' = [session EXCEPT
                             !.comments_posted = @ + out.posted,
                             !.last_call = [name |-> tool_name,
                                            arguments |-> arguments,
                                            env |-> env],
                             !.raised = out.raises,
                             !.result = out.result,
                             !.touched = out.touched]
    /\ UNCHANGED scheduler_vars

NextTools ==
    \E tool_name \in ToolNames \cup {UnknownTool} :
       \E text \in ArgTextsFor(tool_name), env \in EnvsFor(tool_name) :
          /\ text.json
          /\ ExecutorCall(tool_name, text.value, env)

InitTools ==
    /\ InitScheduler
    /\ max_concurrent_reviews = 1
    /\ ~nats
    /\ \E repo_path \in BOOLEAN : session = NewExecutor(repo_path)

SpecTools == InitTools /\ [][NextTools]_vars

\* ---------------------------------------------------- claims: the executor
LocalTools == {"read_file", "search_code", "list_files"}

\* C17: with no local checkout path configured, read_file, search_code and
\* list_files return a structured error, do not raise and reach neither the
\* file system nor a subprocess, whatever their arguments.
C17_NoCheckoutNoAccess ==
    (~session.repo_path /\ session.last_call.name \in LocalTools)
    => /\ session.result = ErrorResult
       /\ ~session.raised
       /\ ~session.touched

\* read_file was called for a path, with no checkout configured, where the
\* path names an existing file.
C17_Witness ==
    /\ ~session.repo_path
    /\ session.last_call.name = "read_file"
    /\ session.last_call.arguments.kind = "map"
    /\ session.last_call.arguments.required
    /\ session.last_call.env.local = "found"
    /\ session.result = ErrorResult

\* C35: read_file and list_files never return the content or the name of a
\* file that lies outside the configured checkout, whatever path or pattern
\* they are given.
C35_PathConfinement ==
    session.last_call.name \in {"read_file", "list_files"}
    => session.result # OutsideResult

\* C18: the get_mr_diff result for a diff longer than 100,000 characters is its
\* first 100,000 characters followed by the truncation marker; a diff of at
\* most 100,000 characters is returned unchanged.
C18_DiffTruncation ==
    (session.last_call.name = "get_mr_diff" /\ session.last_call.env.provider_ok)
    => LET n == session.last_call.env.diff_len
       IN  /\ n > DiffCeiling => session.result = DiffResult(DiffCeiling, TRUE)
           /\ n <= DiffCeiling => session.result = DiffResult(n, FALSE)

\* A diff of 150,000 characters came back as 100,000 characters and the marker.
C18_Witness ==
    /\ session.last_call.name = "get_mr_diff"
    /\ session.last_call.env.provider_ok
    /\ session.last_call.env.diff_len = 150000
    /\ session.result = DiffResult(100000, TRUE)

\* =========================================================================
\* Claims about the scheduler and its review tasks (continued).
\* =========================================================================
\* A step of the review task t: any step of _process_review and of the
\* run_review call it makes.
TaskStep(t) ==
    \/ FailProject(t)
    \/ MarkInProgress(t)
    \/ PublishStarted(t)
    \/ FailProvider(t)
    \/ CreateAgent(t)
    \/ \E v \in VerdictArgs : SessionSubmit(t, v)
    \/ SessionEnd(t)
    \/ \E n \in ExcMessageLens : SessionFail(t, n)
    \/ UpdateAgent(t)
    \/ WriteDone(t)
    \/ WriteFailed(t)
    \/ PublishTerminal(t)
    \/ TaskRaises(t)

\* C19: a review task writes only the Review row of its own review id and the
\* Agent Session row it created, whatever the other tasks are doing.
C19_WritesOwnRows ==
    [][\A t \in Tids :
          TaskStep(t)
          => /\ \A r \in Rids : r # tasks[t].rid => reviews'[r] = reviews[r]
             /\ \A u \in TaskSlots : u # t => agents'[u] = agents[u]]_vars

\* Two tasks work on different reviews at the same time: one has recorded its
\* review as done while the other's session is still running.
C19_Witness ==
    \E t, u \in Tids :
        /\ tasks[t].rid # tasks[u].rid
        /\ tasks[t].pc = "session"
        /\ tasks[u].pc = "publish_completed"
        /\ reviews[tasks[u].rid].status = "done"
        /\ reviews[tasks[t].rid].status = "in_progress"
        /\ agents[t] = "starting"
        /\ agents[u] = "done"

\* Where the task t stands in the run without an event bus: a task waiting for
\* publish_review_started stands before provider creation, and a task waiting
\* for its terminal notification has nothing left to write.
CorePc(t) ==
    LET pc == tasks[t].pc
    IN  IF pc = "publish_started" THEN AfterStarted(t)
        ELSE IF pc \in {"publish_completed", "publish_failed", "finished",
                        "raised", "cancelled"}
        THEN "ended"
        ELSE pc

\* C20: the steps a review task takes in its event-bus calls change nothing of
\* what the scheduler writes: they leave the reviews and agents tables as they
\* are and leave the task where the run without an event bus has it, so that
\* the same store writes follow.
C20_BusInvisible ==
    [][\A t \in Tids :
          (/\ tasks[t].pc \in {"publish_started", "publish_completed",
                               "publish_failed"}
           /\ TaskStep(t))
          => /\ reviews' = reviews
             /\ agents' = agents
             /\ CorePc(t)' = CorePc(t)]_vars

\* C23: every Agent Session that run_review created is finalized exactly once:
\* when its task has ended, in whatever way, its row has status done or failed,
\* and a row that has status done or failed is not written again.
C23_FinalizedOnce ==
    /\ [](\A t \in Tids :
             (TaskDone(t) /\ agents[t] # "none") => agents[t] \in {"done", "failed"})
    /\ [][\A t \in TaskSlots :
             agents[t] \in {"done", "failed"} => agents'[t] = agents[t]]_vars

\* C24: whenever a task creates the Agent Session of its run_review call, the
\* store records the task's review as in_progress with started_at set.
C24_InProgressBeforeLaunch ==
    [][\A t \in Tids :
          CreateAgent(t)
          => /\ reviews[tasks[t].rid].status = "in_progress"
             /\ reviews[tasks[t].rid].started_at = "stamped"]_vars

\* The task t works on a review whose project is not in the registry, or whose
\* project names a provider that cannot be constructed.
FailsFast(t) ==
    \/ Project(t) \notin DOMAIN Registry
    \/ ~ProviderError(Registry[Project(t)]).isnull

\* C25: a task whose review names a missing project, or a project whose
\* provider cannot be constructed, creates no Agent Session and never reaches
\* the session (no completion call), and when the tasks launched for the review
\* have run to their end the review has status failed.
C25_FailFast ==
    \A t \in Tids :
        (tasks[t].pc # "unborn" /\ FailsFast(t))
        => /\ agents[t] = "none"
           /\ tasks[t].pc \notin {"create_agent", "session", "update_agent",
                                  "write_done", "write_failed"}
           /\ (\A u \in Tids : tasks[u].rid = tasks[t].rid => tasks[u].pc = "finished")
              => reviews[tasks[t].rid].status = "failed"

\* One task has ended for a review of a missing project and one for a review
\* of a project with an unsupported provider.
C25_Witness ==
    \E t, u \in Tids :
        /\ Project(t) \notin DOMAIN Registry
        /\ Project(u) \in DOMAIN Registry
        /\ ~ProviderError(Registry[Project(u)]).isnull
        /\ tasks[t].pc = "finished"
        /\ tasks[u].pc = "finished"
        /\ reviews[tasks[t].rid].status = "failed"
        /\ reviews[tasks[u].rid].status = "failed"
        /\ reviews[tasks[u].rid].started_at = "stamped"

\* C26: an exception raised in a review task, whether run_review catches it or
\* it ends the task, changes no row of another review, no other task and not
\* the poll loop; and the poll cycle that reaps a task ended by an exception
\* drops it from the active set and goes on.
C26_FailureIsolation ==
    /\ [][\A t \in Tids :
             (TaskRaises(t) \/ \E n \in ExcMessageLens : SessionFail(t, n))
             => /\ \A r \in Rids : r # tasks[t].rid => reviews'[r] = reviews[r]
                /\ \A u \in TaskSlots : u # t => tasks'[u] = tasks[u]
                /\ engine' = engine
                /\ running' = running
                /\ active_reviews' = active_reviews]_vars
    /\ [][(/\ PollStart
           /\ running
           /\ \E t \in active_reviews : tasks[t].pc = "raised")
          => /\ engine'.pc \in {"sleep", "query"}
             /\ \A t \in active_reviews' : ~TaskDone(t)
             /\ engine'.available
                   = IF Cardinality(active_reviews') < max_concurrent_reviews
                     THEN max_concurrent_reviews - Cardinality(active_reviews')
                     ELSE 0]_vars

\* With room for one session, a task was ended by an exception and a task for
\* a later review has been launched since.
C26_Witness ==
    /\ max_concurrent_reviews = 1
    /\ running
    /\ \E t, u \in Tids :
          /\ tasks[t].pc = "raised"
          /\ tasks[u].rid > tasks[t].rid
          /\ u \in active_reviews
          /\ tasks[u].pc = "session"

\* C27: a failure inside a poll cycle does not stop the scheduler: as long as
\* stop() has not been called the polling loop has not ended (it sleeps before
\* its next cycle or is inside one), and a cycle whose fetch of the queued
\* reviews fails goes back to sleep with the scheduler still running.
C27_PollFailureSurvived ==
    /\ [](stopper = "none" => (running /\ engine.pc \in {"sleep", "query"}))
    /\ [][PollFails => (engine'.pc = "sleep" /\ running' = running)]_vars

\* The fetch of a poll cycle failed and a later cycle is fetching again.
C27_Witness ==
    /\ stopper = "none"
    /\ faults = 1
    /\ \A t \in Tids : tasks[t].pc # "raised"
    /\ engine.pc = "query"
    /\ QueuedRids # {}

\* C32: with an event bus configured, every step in which a review task writes
\* status failed is followed by that task's publish_review_failed, and every
\* step in which it writes status done by its publish_review_completed.
C32_TerminalNotified ==
    [][\A t \in Tids :
          (nats /\ TaskStep(t) /\ reviews' # reviews)
          => LET now == reviews'[tasks[t].rid].status
             IN  /\ now = "failed" => tasks'[t].pc = "publish_failed"
                 /\ now = "done" => tasks'[t].pc = "publish_completed"]_vars

\* =========================================================================
\* The scheduler left to run: no shutdown, no store or event-bus call raises,
\* every session ends, and every coroutine that can take a step eventually
\* takes it. One session at a time, so that the reviews queue up behind it.
\* =========================================================================
\* A step of the review task t that takes it forward (a turn that only
\* captures a verdict leaves the session where it is).
TaskProgress(t) ==
    \/ FailProject(t)
    \/ MarkInProgress(t)
    \/ PublishStarted(t)
    \/ FailProvider(t)
    \/ CreateAgent(t)
    \/ SessionEnd(t)
    \/ \E n \in ExcMessageLens : SessionFail(t, n)
    \/ UpdateAgent(t)
    \/ WriteDone(t)
    \/ WriteFailed(t)
    \/ PublishTerminal(t)

NextLive ==
    \/ \E p \in ProjectKeys : RequestReview(p)
    \/ \E r \in ReviewSlots : CancelRead(r)
    \/ \E r \in ReviewSlots : CancelWrite(r)
    \/ PollStart
    \/ PollLaunch
    \/ \E t \in TaskSlots :
          \/ DoneCallback(t)
          \/ TaskProgress(t)
          \/ \E v \in VerdictArgs : SessionSubmit(t, v)

\* The event loop runs every coroutine that is ready: start() wakes from its
\* sleep, a store call returns, a session ends.
Fairness ==
    /\ WF_vars(PollStart)
    /\ WF_vars(PollLaunch)
    /\ \A t \in TaskSlots : WF_vars(TaskProgress(t))

SpecLive == InitFifo /\ [][NextLive]_vars /\ Fairness

\* C33: every queued review eventually has status done or failed.
C33_QueueDrains ==
    \A r \in ReviewSlots :
        (r \in Rids /\ reviews[r].status = "queued")
            ~> (r \in Rids /\ reviews[r].status \in {"done", "failed"})

\* Three reviews were queued behind a capacity of one and all have ended.
C33_Witness ==
    /\ max_concurrent_reviews = 1
    /\ Len(reviews) = 3
    /\ \A r \in Rids : reviews[r].status \in {"done", "failed"}
    /\ \A r \in Rids : reviews[r].started_at = "stamped"
    /\ ntasks = 3

\* C34: while the scheduler runs, every review whose stored status is
\* in_progress has a live task in the active set.
C34_InProgressHasLiveTask ==
    running =>
        \A r \in InProgress :
            \E t \in active_reviews : tasks[t].rid = r /\ ~TaskDone(t)

\* C36: no review id has more than one _process_review task launched for it.
C36_AdmittedOnce ==
    \A t, u \in Tids : t # u => tasks[t].rid # tasks[u].rid

\* C37: once a review's stored status is done or failed, no step changes it.
C37_TerminalAbsorbing ==
    [][\A r \in Rids :
          reviews[r].status \in {"done", "failed"}
          => reviews'[r].status = reviews[r].status]_vars

\* C38: cancel_review writes status failed only onto a review whose stored
\* status is queued at the moment of the write.
C38_CancelOnlyQueued ==
    [][\A r \in Rids : CancelWrite(r) => reviews[r].status = "queued"]_vars

====
